---- MODULE Spec2Model ----
(***************************************************************************)
(* Order status aggregation and live broadcast (WiFleet connector).        *)
(*                                                                         *)
(* Model of the express server with the SSE fan-out: the in-memory store,  *)
(* the listeners map, the webhook, tracking, events and mock handlers.     *)
(* JavaScript values are tagged records; objects are functions from        *)
(* property names to values; strings are TLA+ strings.                     *)
(***************************************************************************)
EXTENDS Integers, Sequences, FiniteSets, TLC

(***************************************************************************)
(* Bounds of the model.                                                    *)
(***************************************************************************)
MaxEvents == 2
MaxSubs == 2
MaxClock == 1

(***************************************************************************)
(* JavaScript values.                                                      *)
(***************************************************************************)
undefined == [type |-> "undefined"]
null == [type |-> "null"]
Str(s) == [type |-> "string", str |-> s]
Num(n) == [type |-> "number", num |-> n]
Bool(b) == [type |-> "boolean", bool |-> b]
Arr(items) == [type |-> "array", items |-> items]
Obj(props) == [type |-> "object", props |-> props]
\* the ISO-8601 text of the instant t, as new Date().toISOString() gives it
ISO(t) == [type |-> "string", iso |-> t]
EmptyObj == Obj(<<>>)

\* ToBoolean: undefined, null, "" and 0 are falsy
Truthy(v) ==
  CASE v.type = "undefined" -> FALSE
    [] v.type = "null" -> FALSE
    [] v.type = "string" -> IF "str" \in DOMAIN v THEN v.str # "" ELSE TRUE
    [] v.type = "number" -> v.num # 0
    [] v.type = "boolean" -> v.bool
    [] OTHER -> TRUE

\* a || b
Or(a, b) == IF Truthy(a) THEN a ELSE b
\* a ?? b
Coalesce(a, b) == IF a.type \in {"undefined", "null"} THEN b ELSE a
\* o.name on an object (a missing property reads as undefined)
Prop(o, name) ==
  IF o.type = "object" /\ name \in DOMAIN o.props THEN o.props[name] ELSE undefined
\* o?.name
OptProp(o, name) == IF o.type \in {"undefined", "null"} THEN undefined ELSE Prop(o, name)
\* Array.isArray
IsArray(v) == v.type = "array"

\* JSON.stringify of an object: a property whose value is undefined is dropped
JSONstringify(o) ==
  Obj([p \in {q \in DOMAIN o.props : o.props[q] # undefined} |-> o.props[p]])

(***************************************************************************)
(* Strings.                                                                *)
(***************************************************************************)
UpperCase == "ABCDEFGHIJKLMNOPQRSTUVWXYZ"
LowerCase == "abcdefghijklmnopqrstuvwxyz"
lowerChar(c) ==
  IF \E i \in 1..Len(UpperCase) : SubSeq(UpperCase, i, i) = c
  THEN LET i == CHOOSE j \in 1..Len(UpperCase) : SubSeq(UpperCase, j, j) = c
       IN SubSeq(LowerCase, i, i)
  ELSE c

RECURSIVE toLowerCase(_)
toLowerCase(s) ==
  IF Len(s) = 0 THEN "" ELSE lowerChar(SubSeq(s, 1, 1)) \o toLowerCase(SubSeq(s, 2, Len(s)))

IsSpace(c) == c \in {" ", "\t", "\n"}
RECURSIVE trimStart(_)
trimStart(s) ==
  IF Len(s) > 0 /\ IsSpace(SubSeq(s, 1, 1)) THEN trimStart(SubSeq(s, 2, Len(s))) ELSE s
RECURSIVE trimEnd(_)
trimEnd(s) ==
  IF Len(s) > 0 /\ IsSpace(SubSeq(s, Len(s), Len(s))) THEN trimEnd(SubSeq(s, 1, Len(s) - 1)) ELSE s
trim(s) == trimEnd(trimStart(s))

Digits == "0123456789"
\* value.toString() for the strings and the one-digit numbers of the model
toString(v) ==
  CASE v.type = "string" -> v.str
    [] v.type = "number" -> SubSeq(Digits, v.num + 1, v.num + 1)
    [] OTHER -> "[object Object]"

\* the text t contains the text p
includes(t, p) == \E i \in 1..(Len(t) - Len(p) + 1) : SubSeq(t, i, i + Len(p) - 1) = p
\* /(p1|p2|...)/.test(t) for an alternation of literal texts
test(alternatives, t) == \E p \in alternatives : includes(t, p)
\* the same regular expression with the i flag
testI(alternatives, t) == test(alternatives, toLowerCase(t))

(***************************************************************************)
(* Pure functions of the server.                                           *)
(***************************************************************************)
KeyFields ==
  <<"task_id", "reference", "order_id", "order", "id", "job_id", "code",
    "task_code", "tracking_id", "tracking_code">>

\* b.task_id || b.reference || ... || b.tracking_code || null
RECURSIVE pickKeyFrom(_, _)
pickKeyFrom(b, i) ==
  IF i > Len(KeyFields) THEN null
  ELSE IF Truthy(Prop(b, KeyFields[i])) THEN Prop(b, KeyFields[i])
  ELSE pickKeyFrom(b, i + 1)
pickKey(b) == pickKeyFrom(b, 1)

AcceptedRe == {"accept", "assigned"}
EnrouteRe == {"start", "enroute", "on_the_way", "on-the-way", "dispatched"}
NearbyRe == {"nearby", "arriving"}
CompletedRe == {"delivered", "completed", "success"}

\* statusToLabel without the i flag on its patterns
statusToLabelCaseSensitive(s) ==
  IF s = "" THEN null
  ELSE IF test(AcceptedRe, s) THEN Str("Driver accepted your order")
  ELSE IF test(EnrouteRe, s) THEN Str("Driver is on the way")
  ELSE IF test(NearbyRe, s) THEN Str("Driver is nearby")
  ELSE IF test(CompletedRe, s) THEN Str("Order delivered successfully")
  ELSE null

statusToLabel(s) ==
  IF s = "" THEN null
  ELSE LET t == toLowerCase(s) IN
    IF test(AcceptedRe, t) THEN Str("Driver accepted your order")
    ELSE IF test(EnrouteRe, t) THEN Str("Driver is on the way")
    ELSE IF test(NearbyRe, t) THEN Str("Driver is nearby")
    ELSE IF test(CompletedRe, t) THEN Str("Order delivered successfully")
    ELSE null

\* (b.status || b.task_status || "").toString()
rawStatus(b) == toString(Or(Or(Prop(b, "status"), Prop(b, "task_status")), Str("")))

\* the status of the webhook's patch: the nested conditional over the raw text
patchStatus(raw) ==
  IF testI(AcceptedRe, raw) THEN Str("accepted")
  ELSE IF testI(EnrouteRe, raw) THEN Str("enroute")
  ELSE IF testI(NearbyRe, raw) THEN Str("nearby")
  ELSE IF testI(CompletedRe, raw) THEN Str("completed")
  ELSE undefined

\* the patch object literal of the webhook handler: every property is present,
\* with the value undefined when the payload carries nothing for it
webhookPatch(b) ==
  Obj([status |-> patchStatus(rawStatus(b)),
       driverName |-> Or(Or(Or(OptProp(Prop(b, "driver"), "name"), Prop(b, "driver_name")),
                            Prop(b, "courier_name")), undefined),
       driverPhone |-> Or(Or(Or(OptProp(Prop(b, "driver"), "phone"), Prop(b, "driver_phone")),
                             Prop(b, "courier_phone")), undefined),
       lat |-> Coalesce(Coalesce(Coalesce(OptProp(Prop(b, "location"), "lat"), Prop(b, "lat")),
                                 Prop(b, "latitude")), undefined),
       lng |-> Coalesce(Coalesce(Coalesce(OptProp(Prop(b, "location"), "lng"), Prop(b, "lng")),
                                 Prop(b, "longitude")), undefined),
       etaMinutes |-> Coalesce(Coalesce(Prop(b, "eta_minutes"), Prop(b, "eta")), undefined)])

(***************************************************************************)
(* The same functions in server.js, the variant without timeline and       *)
(* event stream.                                                           *)
(***************************************************************************)
KeyFieldsServerJs == <<"task_id", "reference", "order_id", "order", "id", "job_id">>

\* b.task_id || b.reference || b.order_id || b.order || b.id || b.job_id || null
RECURSIVE pickKeyFromServerJs(_, _)
pickKeyFromServerJs(b, i) ==
  IF i > Len(KeyFieldsServerJs) THEN null
  ELSE IF Truthy(Prop(b, KeyFieldsServerJs[i])) THEN Prop(b, KeyFieldsServerJs[i])
  ELSE pickKeyFromServerJs(b, i + 1)
pickKeyServerJs(b) == pickKeyFromServerJs(b, 1)

\* (b.status || b.task_status || "").toString().toLowerCase()
statusRawServerJs(b) ==
  toLowerCase(toString(Or(Or(Prop(b, "status"), Prop(b, "task_status")), Str(""))))

\* let status = undefined, then four if statements in a row, each assigning
statusServerJs(statusRaw) ==
  LET s0 == undefined
      s1 == IF test(AcceptedRe, statusRaw) THEN Str("accepted") ELSE s0
      s2 == IF test(EnrouteRe, statusRaw) THEN Str("enroute") ELSE s1
      s3 == IF test(NearbyRe, statusRaw) THEN Str("nearby") ELSE s2
      s4 == IF test(CompletedRe, statusRaw) THEN Str("completed") ELSE s3
  IN s4

\* { status, driverName, driverPhone, lat, lng, etaMinutes } of server.js
webhookPatchServerJs(b) ==
  Obj([status |-> statusServerJs(statusRawServerJs(b)),
       driverName |-> Or(Or(Or(OptProp(Prop(b, "driver"), "name"), Prop(b, "driver_name")),
                            Prop(b, "courier_name")), undefined),
       driverPhone |-> Or(Or(Or(OptProp(Prop(b, "driver"), "phone"), Prop(b, "driver_phone")),
                             Prop(b, "courier_phone")), undefined),
       lat |-> Coalesce(Coalesce(OptProp(Prop(b, "location"), "lat"), Prop(b, "lat")),
                        Prop(b, "latitude")),
       lng |-> Coalesce(Coalesce(OptProp(Prop(b, "location"), "lng"), Prop(b, "lng")),
                        Prop(b, "longitude")),
       etaMinutes |-> Coalesce(Coalesce(Prop(b, "eta_minutes"), Prop(b, "eta")), undefined)])

\* Map.get
mapGet(m, k) == IF k \in DOMAIN m THEN m[k] ELSE undefined
\* Map.set
mapSet(m, k, v) == (k :> v) @@ m
\* Map.delete
mapDelete(m, k) == [j \in DOMAIN m \ {k} |-> m[j]]

\* the object upsert of server.js stores: { ...prev, ...patch, updatedAt: now() }
upsertNextServerJs(st, key, patch, t) ==
  LET prev == Or(mapGet(st, key), EmptyObj)
  IN Obj(("updatedAt" :> ISO(t)) @@ patch.props @@ prev.props)

\* upsertNext with the timeline started afresh instead of copied from prev
upsertNextFreshTimeline(st, order, patch, timelineLabel, t1, t2) ==
  LET prev == Or(mapGet(st, order), Obj([timeline |-> Arr(<<>>)]))
      copied == [status |-> Prop(prev, "status"),
                 driverName |-> Prop(prev, "driverName"),
                 driverPhone |-> Prop(prev, "driverPhone"),
                 lat |-> Prop(prev, "lat"),
                 lng |-> Prop(prev, "lng"),
                 etaMinutes |-> Prop(prev, "etaMinutes"),
                 timeline |-> Arr(<<>>)]
      next == ("updatedAt" :> ISO(t1)) @@ patch.props @@ copied
  IN IF Truthy(timelineLabel)
     THEN Obj([next EXCEPT !["timeline"] =
                 Arr(Append(@.items, Obj([ts |-> ISO(t2), label |-> timelineLabel])))])
     ELSE Obj(next)

\* upsertNext that pushes the label only when the status changes
upsertNextDedupLabel(st, order, patch, timelineLabel, t1, t2) ==
  LET prev == Or(mapGet(st, order), Obj([timeline |-> Arr(<<>>)]))
      copied == [status |-> Prop(prev, "status"),
                 driverName |-> Prop(prev, "driverName"),
                 driverPhone |-> Prop(prev, "driverPhone"),
                 lat |-> Prop(prev, "lat"),
                 lng |-> Prop(prev, "lng"),
                 etaMinutes |-> Prop(prev, "etaMinutes"),
                 timeline |-> IF IsArray(Prop(prev, "timeline"))
                              THEN Arr(Prop(prev, "timeline").items) ELSE Arr(<<>>)]
      next == ("updatedAt" :> ISO(t1)) @@ patch.props @@ copied
  IN IF Truthy(timelineLabel) /\ next["status"] # Prop(prev, "status")
     THEN Obj([next EXCEPT !["timeline"] =
                 Arr(Append(@.items, Obj([ts |-> ISO(t2), label |-> timelineLabel])))])
     ELSE Obj(next)

\* the object upsert stores: the previous fields, the patch spread over them,
\* updatedAt, and the timeline with the label pushed when there is one
upsertNext(st, order, patch, timelineLabel, t1, t2) ==
  LET prev == Or(mapGet(st, order), Obj([timeline |-> Arr(<<>>)]))
      copied == [status |-> Prop(prev, "status"),
                 driverName |-> Prop(prev, "driverName"),
                 driverPhone |-> Prop(prev, "driverPhone"),
                 lat |-> Prop(prev, "lat"),
                 lng |-> Prop(prev, "lng"),
                 etaMinutes |-> Prop(prev, "etaMinutes"),
                 timeline |-> IF IsArray(Prop(prev, "timeline"))
                              THEN Arr(Prop(prev, "timeline").items) ELSE Arr(<<>>)]
      next == ("updatedAt" :> ISO(t1)) @@ patch.props @@ copied
  IN IF Truthy(timelineLabel)
     THEN Obj([next EXCEPT !["timeline"] =
                 Arr(Append(@.items, Obj([ts |-> ISO(t2), label |-> timelineLabel])))])
     ELSE Obj(next)

\* { order, ...data }
withOrder(order, data) == Obj(data.props @@ ("order" :> order))

DefaultView == Obj([status |-> Str("pending"), timeline |-> Arr(<<>>)])

\* the body GET /api/tracking answers with
trackingJson(st, order) == JSONstringify(withOrder(order, Or(mapGet(st, order), DefaultView)))

\* eventsSnapshot with a default view that has no timeline
eventsSnapshotNoTimeline(st, order) ==
  JSONstringify(withOrder(order, Or(mapGet(st, order), Obj([status |-> Str("pending")]))))

\* the first frame GET /events writes
eventsSnapshot(st, order) == JSONstringify(withOrder(order, Or(mapGet(st, order), DefaultView)))

\* writeAll without the try/catch: the first write that throws ends the loop
RECURSIVE writeAllUncaught(_, _, _, _)
writeAllUncaught(set, data, throws, w) ==
  IF set = <<>> THEN w
  ELSE LET res == Head(set)
           w1 == [w EXCEPT ![res] = Append(@, [data |-> data, thrown |-> res \in throws])]
       IN IF res \in throws THEN w1 ELSE writeAllUncaught(Tail(set), data, throws, w1)

\* the for loop of broadcast over the Set (in insertion order): one res.write
\* per member, an exception of one write is caught and the loop goes on
RECURSIVE writeAll(_, _, _, _)
writeAll(set, data, throws, w) ==
  IF set = <<>> THEN w
  ELSE LET res == Head(set)
           w1 == [w EXCEPT ![res] = Append(@, [data |-> data, thrown |-> res \in throws])]
       IN writeAll(Tail(set), data, throws, w1)

\* broadcast that writes to the channels of every order
broadcastToAll(ls, order, payload, throws, w) ==
  [s \in DOMAIN w |->
     IF \E k \in DOMAIN ls : \E i \in 1..Len(ls[k]) : ls[k][i] = s
     THEN Append(w[s], [data |-> JSONstringify(payload), thrown |-> s \in throws])
     ELSE w[s]]

broadcast(ls, order, payload, throws, w) ==
  IF order \notin DOMAIN ls \/ Len(ls[order]) = 0 THEN w
  ELSE writeAll(ls[order], JSONstringify(payload), throws, w)

(***************************************************************************)
(* Inputs of the model.                                                    *)
(***************************************************************************)
\* webhook payloads (req.body)
Bodies ==
  { Obj([order_id |-> Str("T2"), driver_name |-> Str("Ahmed")]),
    Obj([order_id |-> Str("T2"), status |-> Str("enroute")]),
    Obj([task_id |-> Str("T1"), task_status |-> Str("Driver Accepted Order #4"),
         driver |-> Obj([name |-> Str("Sara"), phone |-> Str("555")]),
         location |-> Obj([lat |-> Num(0), lng |-> Num(7)]), eta_minutes |-> Num(5)]),
    Obj([task_id |-> Str(""), reference |-> Str("T1"), status |-> Str("rescheduled")]),
    Obj([status |-> Str("delivered"), driver_name |-> Str("Ahmed"), lat |-> Num(1)]),
    EmptyObj }

\* the order parameter of GET /api/tracking and GET /events
QueryOrders == {"T1", " T2 ", ""}
\* the path parameters of GET /api/mock/:order/:status
MockOrders == {"T2"}
MockStatuses == {"completed", "returned"}

\* payloads for the runs of one webhook event on an empty store: the key
\* properties and the raw status text vary
KeyProps ==
  { <<>>,
    [task_id |-> Str("T1")],
    [task_id |-> Str("  ")],
    [task_id |-> Str(""), reference |-> Str(" T1 ")],
    [tracking_code |-> Str("T9")],
    [job_id |-> Str("J1"), code |-> Str("C1")] }
StatusWords ==
  { "", "accept", "ASSIGNED", "start", "on the way", "ontheway", "on_the_way", "On-The-Way",
    "dispatched", "nearby", "arriving", "delivered", "Completed", "success", "rescheduled" }
RawStatuses ==
  {a \o " " \o b : a, b \in StatusWords} \cup {"", "Driver Accepted Order #4"}
NormalizerBodies == {Obj(("status" :> Str(raw)) @@ k) : k \in KeyProps, raw \in RawStatuses}

\* what the webhook handler computes from each payload before it looks at the store
normalize(b) ==
  [order |-> pickKey(b), label |-> statusToLabel(rawStatus(b)), patch |-> webhookPatch(b)]
\* the same, computed once for each payload of the long runs
Normalized == [b \in Bodies |-> normalize(b)]
FromBody(b) == IF b \in Bodies THEN Normalized[b] ELSE normalize(b)
\* what the mock handler computes from each status parameter
MockLabel == [st \in MockStatuses |-> Or(statusToLabel(st), Str("Status: " \o st))]

\* (req.query.order || "").toString().trim()
QueryOrder == [q \in QueryOrders |-> trim(toString(Or(Str(q), Str(""))))]

Subs == 1..MaxSubs
Range(seq) == {seq[i] : i \in 1..Len(seq)}
Min(a, b) == IF a < b THEN a ELSE b

(***************************************************************************)
(* State.                                                                  *)
(***************************************************************************)
VARIABLES
  store,      \* Map: order key -> order state object
  listeners,  \* Map: order key -> Set of response channels, in insertion order
  conn,       \* per channel: its state and the order its close handler captured
  writes,     \* per channel: the res.write calls made on it, in order
  clock,      \* the last instant nowISO() returned
  handled,    \* the number of upserts so far
  request,    \* the request handled last
  response,   \* the answer to it
  commits,    \* history: per order key, the states store.set committed, as JSON
  since       \* history: per channel, the number of commits to its order at registration

vars == <<store, listeners, conn, writes, clock, handled, request, response, commits, since>>

Init ==
  /\ store = <<>>
  /\ listeners = <<>>
  /\ conn = [s \in Subs |-> [state |-> "new", order |-> undefined]]
  /\ writes = [s \in Subs |-> <<>>]
  /\ clock = 0
  /\ handled = 0
  /\ request = [op |-> "none"]
  /\ response = [status |-> 0]
  /\ commits = <<>>
  /\ since = [s \in Subs |-> 0]

\* upsert that broadcasts the patch instead of the stored state
upsertBroadcastsPatch(order, patch, timelineLabel, throws) ==
  \E t1 \in clock..Min(clock + 1, MaxClock) :
  \E t2 \in t1..Min(t1 + 1, MaxClock) :
    LET next == upsertNext(store, order, patch, timelineLabel, t1, t2) IN
    /\ store' = mapSet(store, order, next)
    /\ commits' = mapSet(commits, order,
                         Append(IF order \in DOMAIN commits THEN commits[order] ELSE <<>>,
                                JSONstringify(withOrder(order, next))))
    /\ writes' = broadcast(listeners, order, withOrder(order, patch), throws, writes)
    /\ clock' = t2
    /\ handled' = handled + 1

\* upsert that broadcasts only when a timeline entry was pushed
upsertBroadcastsOnLabel(order, patch, timelineLabel, throws) ==
  \E t1 \in clock..Min(clock + 1, MaxClock) :
  \E t2 \in t1..Min(t1 + 1, MaxClock) :
    LET next == upsertNext(store, order, patch, timelineLabel, t1, t2) IN
    /\ store' = mapSet(store, order, next)
    /\ commits' = mapSet(commits, order,
                         Append(IF order \in DOMAIN commits THEN commits[order] ELSE <<>>,
                                JSONstringify(withOrder(order, next))))
    /\ writes' = IF Truthy(timelineLabel)
                 THEN broadcast(listeners, order, withOrder(order, next), throws, writes)
                 ELSE writes
    /\ clock' = t2
    /\ handled' = handled + 1

\* upsert that broadcasts before it stores: the frame carries the previous state
upsertBroadcastsBeforeSet(order, patch, timelineLabel, throws) ==
  \E t1 \in clock..Min(clock + 1, MaxClock) :
  \E t2 \in t1..Min(t1 + 1, MaxClock) :
    LET next == upsertNext(store, order, patch, timelineLabel, t1, t2) IN
    /\ store' = mapSet(store, order, next)
    /\ commits' = mapSet(commits, order,
                         Append(IF order \in DOMAIN commits THEN commits[order] ELSE <<>>,
                                JSONstringify(withOrder(order, next))))
    /\ writes' = broadcast(listeners, order,
                           withOrder(order, Or(mapGet(store, order), DefaultView)),
                           throws, writes)
    /\ clock' = t2
    /\ handled' = handled + 1

\* upsert(order, patch, timelineLabel): store.set, then broadcast of { order, ...next }.
\* nowISO() is read twice, for updatedAt (t1) and for the timeline entry (t2);
\* time may pass before each read.
upsert(order, patch, timelineLabel, throws) ==
  \E t1 \in clock..Min(clock + 1, MaxClock) :
  \E t2 \in t1..Min(t1 + 1, MaxClock) :
    LET next == upsertNext(store, order, patch, timelineLabel, t1, t2) IN
    /\ store' = mapSet(store, order, next)
    /\ commits' = mapSet(commits, order,
                         Append(IF order \in DOMAIN commits THEN commits[order] ELSE <<>>,
                                JSONstringify(withOrder(order, next))))
    /\ writes' = broadcast(listeners, order, withOrder(order, next), throws, writes)
    /\ clock' = t2
    /\ handled' = handled + 1

(***************************************************************************)
(* Handlers.                                                               *)
(***************************************************************************)
\* app.all("/webhooks/:event"): bearer or signature rejected
WebhookUnauthorized ==
  /\ request' = [op |-> "webhook", authorized |-> FALSE]
  /\ response' = [status |-> 401, body |-> Str("Unauthorized")]
  /\ UNCHANGED <<store, listeners, conn, writes, clock, handled, commits, since>>

\* the webhook handler without the early return: the event is upserted under null
WebhookNoKeyFallsThrough(b) ==
  /\ ~Truthy(FromBody(b).order)
  /\ handled < MaxEvents
  /\ upsert(FromBody(b).order, FromBody(b).patch, FromBody(b).label, {})
  /\ request' = [op |-> "webhook", body |-> b, authorized |-> TRUE]
  /\ response' = [status |-> 200, body |-> Obj([ok |-> Bool(TRUE)])]
  /\ UNCHANGED <<listeners, conn, since>>

\* app.all("/webhooks/:event"): authenticated, no task identifier in the payload
WebhookNoKey(b) ==
  /\ ~Truthy(FromBody(b).order)
  /\ request' = [op |-> "webhook", body |-> b, authorized |-> TRUE]
  /\ response' = [status |-> 200,
                  body |-> Obj([ok |-> Bool(TRUE), note |-> Str("no task id in payload")])]
  /\ UNCHANGED <<store, listeners, conn, writes, clock, handled, commits, since>>

\* app.all("/webhooks/:event"): authenticated, with a task identifier
Webhook(b, throws) ==
  LET order == FromBody(b).order
      label == FromBody(b).label
      patch == FromBody(b).patch
  IN /\ Truthy(order)
     /\ handled < MaxEvents
     /\ upsert(order, patch, label, throws)
     /\ request' = [op |-> "webhook", body |-> b, authorized |-> TRUE]
     /\ response' = [status |-> 200, body |-> Obj([ok |-> Bool(TRUE)])]
     /\ UNCHANGED <<listeners, conn, since>>

\* the tracking handler creating the record of an unknown order on first query
TrackingCreatesRecord(q) ==
  LET order == QueryOrder[q] IN
  /\ request' = [op |-> "tracking", order |-> q]
  /\ response' = IF order = ""
                 THEN [status |-> 400, body |-> Obj([error |-> Str("missing order")])]
                 ELSE [status |-> 200, body |-> trackingJson(store, Str(order))]
  /\ store' = IF order = "" \/ Str(order) \in DOMAIN store THEN store
              ELSE mapSet(store, Str(order), DefaultView)
  /\ UNCHANGED <<listeners, conn, writes, clock, handled, commits, since>>

\* app.get("/api/tracking")
Tracking(q) ==
  LET order == QueryOrder[q] IN
  /\ request' = [op |-> "tracking", order |-> q]
  /\ response' = IF order = ""
                 THEN [status |-> 400, body |-> Obj([error |-> Str("missing order")])]
                 ELSE [status |-> 200, body |-> trackingJson(store, Str(order))]
  /\ UNCHANGED <<store, listeners, conn, writes, clock, handled, commits, since>>

\* the channels are numbered in the order the requests that open them arrive
Fresh(s) == conn[s].state = "new" /\ \A r \in Subs : r < s => conn[r].state # "new"

\* app.get("/events") without an order: 400, the response is ended
EventsMissing(s, q) ==
  /\ Fresh(s)
  /\ QueryOrder[q] = ""
  /\ conn' = [conn EXCEPT ![s] = [state |-> "closed", order |-> undefined]]
  /\ request' = [op |-> "events", order |-> q, res |-> s]
  /\ response' = [status |-> 400]
  /\ UNCHANGED <<store, listeners, writes, clock, handled, commits, since>>

\* app.get("/events"): the snapshot frame, then the registration of the channel.
\* The first write on a response that was just opened goes through; a channel
\* breaks later, and then a write of broadcast throws (Throwing).
Events(s, q) ==
  LET order == Str(QueryOrder[q])
      set == IF order \in DOMAIN listeners THEN listeners[order] ELSE <<>>
  IN /\ Fresh(s)
     /\ QueryOrder[q] # ""
     /\ writes' = [writes EXCEPT ![s] =
                     Append(@, [data |-> eventsSnapshot(store, order), thrown |-> FALSE])]
     /\ listeners' = mapSet(listeners, order,
                            IF s \in Range(set) THEN set ELSE Append(set, s))
     /\ conn' = [conn EXCEPT ![s] = [state |-> "open", order |-> order]]
     /\ request' = [op |-> "events", order |-> q, res |-> s]
     /\ response' = [status |-> 200]
     /\ since' = [since EXCEPT ![s] = IF order \in DOMAIN commits THEN Len(commits[order]) ELSE 0]
     /\ UNCHANGED <<store, clock, handled, commits>>

\* the close handler without the removal of the emptied Set
CloseKeepsEmptySet(s) ==
  LET order == conn[s].order
      set == SelectSeq(listeners[order], LAMBDA r : r # s)
  IN /\ conn[s].state = "open"
     /\ listeners' = mapSet(listeners, order, set)
     /\ conn' = [conn EXCEPT ![s].state = "closed"]
     /\ request' = [op |-> "close", res |-> s]
     /\ response' = [status |-> 0]
     /\ UNCHANGED <<store, writes, clock, handled, commits, since>>

\* req.on("close"): the channel leaves its Set, an empty Set leaves the Map
Close(s) ==
  LET order == conn[s].order
      set == SelectSeq(listeners[order], LAMBDA r : r # s)
  IN /\ conn[s].state = "open"
     /\ listeners' = IF Len(set) = 0 THEN mapDelete(listeners, order)
                     ELSE mapSet(listeners, order, set)
     /\ conn' = [conn EXCEPT ![s].state = "closed"]
     /\ request' = [op |-> "close", res |-> s]
     /\ response' = [status |-> 0]
     /\ UNCHANGED <<store, writes, clock, handled, commits, since>>

\* the mock handler building its patch as the webhook handler does
MockFullPatch(o, st, throws) ==
  LET order == Str(o)
  IN /\ handled < MaxEvents
     /\ upsert(order, webhookPatch(Obj([status |-> Str(st)])), MockLabel[st], throws)
     /\ request' = [op |-> "mock", order |-> o, status |-> st]
     /\ response' = [status |-> 200,
                     body |-> Obj([ok |-> Bool(TRUE), order |-> order, status |-> Str(st)])]
     /\ UNCHANGED <<listeners, conn, since>>

\* app.get("/api/mock/:order/:status")
Mock(o, st, throws) ==
  LET order == Str(o)
  IN /\ handled < MaxEvents
     /\ upsert(order, Obj([status |-> Str(st)]), MockLabel[st], throws)
     /\ request' = [op |-> "mock", order |-> o, status |-> st]
     /\ response' = [status |-> 200,
                     body |-> Obj([ok |-> Bool(TRUE), order |-> order, status |-> Str(st)])]
     /\ UNCHANGED <<listeners, conn, since>>

\* the channels whose write may throw during a broadcast to the order
Throwing(order) ==
  SUBSET (IF order \in DOMAIN listeners THEN Range(listeners[order]) ELSE {})

Next ==
  \/ WebhookUnauthorized
  \/ \E b \in Bodies : WebhookNoKey(b)
  \/ \E b \in Bodies : \E throws \in Throwing(FromBody(b).order) : Webhook(b, throws)
  \/ \E q \in QueryOrders : Tracking(q)
  \/ \E s \in Subs, q \in QueryOrders : EventsMissing(s, q)
  \/ \E s \in Subs, q \in QueryOrders : Events(s, q)
  \/ \E s \in Subs : Close(s)
  \/ \E o \in MockOrders, st \in MockStatuses : \E throws \in Throwing(Str(o)) : Mock(o, st, throws)

Spec == Init /\ [][Next]_vars

(***************************************************************************)
(* One webhook event on an empty store, handled by either variant.         *)
(***************************************************************************)
\* server.js, app.all("/webhooks/:event"): no key in the payload
WebhookServerJsNoKey(b) ==
  /\ ~Truthy(pickKeyServerJs(b))
  /\ request' = [op |-> "webhook", body |-> b, authorized |-> TRUE, file |-> "server.js"]
  /\ response' = [status |-> 200,
                  body |-> Obj([ok |-> Bool(TRUE),
                                note |-> Str("no key (task_id/reference/order_id) found")])]
  /\ UNCHANGED <<store, listeners, conn, writes, clock, handled, commits, since>>

\* server.js, app.all("/webhooks/:event"): upsert(key, { status, ... }), no broadcast
WebhookServerJs(b) ==
  LET key == pickKeyServerJs(b) IN
  /\ Truthy(key)
  /\ handled < MaxEvents
  /\ \E t \in clock..Min(clock + 1, MaxClock) :
       /\ store' = mapSet(store, key, upsertNextServerJs(store, key, webhookPatchServerJs(b), t))
       /\ clock' = t
  /\ handled' = handled + 1
  /\ request' = [op |-> "webhook", body |-> b, authorized |-> TRUE, file |-> "server.js"]
  /\ response' = [status |-> 200, body |-> Obj([ok |-> Bool(TRUE)])]
  /\ UNCHANGED <<listeners, conn, writes, commits, since>>

InitNormalizer ==
  /\ store = <<>>
  /\ listeners = <<>>
  /\ conn = [s \in Subs |-> [state |-> "new", order |-> undefined]]
  /\ writes = [s \in Subs |-> <<>>]
  /\ clock = 0
  /\ handled = 0
  /\ \E b \in NormalizerBodies : request = [op |-> "arrived", body |-> b]
  /\ response = [status |-> 0]
  /\ commits = <<>>
  /\ since = [s \in Subs |-> 0]

\* the payload that has arrived and that no handler has taken yet
Arrived == IF request.op = "arrived" THEN {request.body} ELSE {}

NextNormalizer ==
  \/ \E b \in Arrived : WebhookNoKey(b)
  \/ \E b \in Arrived : Webhook(b, {})
  \/ \E b \in Arrived : WebhookServerJsNoKey(b)
  \/ \E b \in Arrived : WebhookServerJs(b)

SpecNormalizer == InitNormalizer /\ [][NextNormalizer]_vars

(***************************************************************************)
(* Vocabulary of the properties.                                           *)
(***************************************************************************)
StickyFields == {"driverName", "driverPhone", "lat", "lng", "etaMinutes"}
Last(seq) == seq[Len(seq)]
IsPrefix(a, b) == Len(a) <= Len(b) /\ SubSeq(b, 1, Len(a)) = a
Timeline(o) == Prop(o, "timeline").items
Registered(ls, k) == IF k \in DOMAIN ls THEN Range(ls[k]) ELSE {}
\* the frames among the writes w of channel s that did not throw
Frames(w, s) ==
  LET ok == SelectSeq(w[s], LAMBDA x : ~x.thrown)
  IN [i \in 1..Len(ok) |-> ok[i].data]
AllSent(w, s) == \A i \in 1..Len(w[s]) : ~w[s][i].thrown
HasNoKeyField(b) == \A i \in 1..Len(KeyFields) : KeyFields[i] \notin DOMAIN b.props
\* the request is a webhook event that reached upsert, or a mock event
IsWebhookMerge(req) == req.op = "webhook" /\ req.authorized /\ Truthy(pickKey(req.body))
IsMerge(req) == IsWebhookMerge(req) \/ req.op = "mock"
MergedKey(req) == IF req.op = "mock" THEN Str(req.order) ELSE pickKey(req.body)
\* this step is an upsert
Merging == handled' = handled + 1

(***************************************************************************)
(* C1: across webhook events on one order key, each of driverName,         *)
(* driverPhone, lat, lng, etaMinutes holds the last value an event carried *)
(* for it: an event that carries the field writes it, an event that omits  *)
(* it leaves the previous value.                                           *)
(***************************************************************************)
C1_StickyLastWriteWins ==
  [][(Merging /\ IsWebhookMerge(request')) =>
       LET order == MergedKey(request')
           patch == webhookPatch(request'.body)
           before == Or(mapGet(store, order), EmptyObj)
       IN \A f \in StickyFields :
            Prop(store'[order], f) =
              IF Prop(patch, f) # undefined THEN Prop(patch, f) ELSE Prop(before, f)]_vars

(***************************************************************************)
(* C2: a webhook event for an existing order whose raw status matches no   *)
(* pattern (or is absent) leaves the stored status as it was and appends   *)
(* no timeline entry.                                                      *)
(***************************************************************************)
C2_UnrecognizedStatusRetained ==
  [][(Merging /\ IsWebhookMerge(request')
      /\ MergedKey(request') \in DOMAIN store
      /\ patchStatus(rawStatus(request'.body)) = undefined) =>
       LET order == MergedKey(request') IN
       /\ Prop(store'[order], "status") = Prop(store[order], "status")
       /\ Timeline(store'[order]) = Timeline(store[order])]_vars

(***************************************************************************)
(* C3: a webhook event whose payload has none of the key fields changes    *)
(* no order state, sends nothing to any subscriber, and is answered as a   *)
(* success with a note, not as an error.                                   *)
(***************************************************************************)
C3_NoKeyIsNoOp ==
  [][(request'.op = "webhook" /\ request'.authorized /\ HasNoKeyField(request'.body)) =>
       /\ store' = store
       /\ writes' = writes
       /\ listeners' = listeners
       /\ response'.status = 200
       /\ Prop(response'.body, "ok") = Bool(TRUE)
       /\ Prop(response'.body, "note") # undefined
       /\ Prop(response'.body, "error") = undefined]_vars

C3_Witness ==
  /\ request.op = "webhook" /\ request.authorized /\ HasNoKeyField(request.body)
  /\ request.body # EmptyObj
  /\ DOMAIN store # {}
  /\ \E s \in Subs : conn[s].state = "open" /\ conn[s].order \in DOMAIN store
  /\ response.status = 200

(***************************************************************************)
(* C4: the first frame a channel gets on connecting to a key is what a     *)
(* tracking query for that key answers at that moment (the pending view    *)
(* with an empty timeline when the key has no record), and it is the only  *)
(* frame written at connection: earlier updates are not replayed.          *)
(***************************************************************************)
C4_SnapshotOnConnect ==
  [][\A s \in Subs :
       (conn[s].state = "new" /\ conn'[s].state = "open") =>
         LET order == conn'[s].order IN
         /\ Frames(writes', s) = <<trackingJson(store, order)>>
         /\ order \notin DOMAIN store =>
              Frames(writes', s) =
                <<Obj([order |-> order, status |-> Str("pending"), timeline |-> Arr(<<>>)])>>]_vars

C4_Witness ==
  /\ request.op = "events" /\ response.status = 200
  /\ LET s == request.res IN
     /\ conn[s].state = "open"
     /\ conn[s].order \in DOMAIN commits
     /\ Len(commits[conn[s].order]) = 2
     /\ Frames(writes, s) = <<trackingJson(store, conn[s].order)>>

(***************************************************************************)
(* C5: an upsert of key K writes nothing to a channel registered for       *)
(* another key.                                                            *)
(***************************************************************************)
C5_NoCrossKeyDelivery ==
  [][Merging =>
       \A s \in Subs :
         (conn[s].state = "open" /\ conn[s].order # MergedKey(request')) =>
           writes'[s] = writes[s]]_vars

C5_Witness ==
  /\ IsMerge(request)
  /\ \E s, r \in Subs :
       /\ conn[s].state = "open" /\ conn[s].order # MergedKey(request)
       /\ conn[r].state = "open" /\ conn[r].order = MergedKey(request)
       /\ Len(writes[s]) = 1
       /\ Len(writes[r]) = 2

(***************************************************************************)
(* C6: an upsert of key K calls write exactly once on every channel        *)
(* registered for K, with the order key and the whole state just stored:   *)
(* what a tracking query for K answers right after.                        *)
(***************************************************************************)
C6_BroadcastFullState ==
  [][Merging =>
       LET order == MergedKey(request') IN
       \A s \in Registered(listeners, order) :
         /\ Len(writes'[s]) = Len(writes[s]) + 1
         /\ Last(writes'[s]).data = trackingJson(store', order)]_vars

C6_Witness ==
  /\ IsMerge(request)
  /\ Cardinality(Registered(listeners, MergedKey(request))) = 2
  /\ \A s \in Registered(listeners, MergedKey(request)) :
       /\ Len(writes[s]) >= 2
       /\ Last(writes[s]).data = trackingJson(store, MergedKey(request))
       /\ Prop(Last(writes[s]).data, "driverName") # undefined

(***************************************************************************)
(* C7: when a write throws during a broadcast to K, every other channel    *)
(* registered for K still gets the update, the state is stored and the     *)
(* request is answered normally.                                           *)
(***************************************************************************)
C7_FailureIsolated ==
  [][(Merging /\ \E r \in Subs : writes'[r] # writes[r] /\ Last(writes'[r]).thrown) =>
       LET order == MergedKey(request') IN
       /\ \A s \in Registered(listeners, order) :
            /\ Len(writes'[s]) = Len(writes[s]) + 1
            /\ Last(writes'[s]).data = trackingJson(store', order)
       /\ order \in DOMAIN store'
       /\ Last(commits'[order]) = trackingJson(store', order)
       /\ response'.status = 200]_vars

C7_Witness ==
  /\ IsMerge(request)
  /\ response.status = 200
  /\ MergedKey(request) \in DOMAIN listeners
  /\ \E r, s \in Subs :
       /\ listeners[MergedKey(request)] = <<r, s>>
       /\ Len(writes[r]) = 2 /\ Last(writes[r]).thrown
       /\ Len(writes[s]) = 2 /\ ~Last(writes[s]).thrown
       /\ Last(writes[s]).data = trackingJson(store, MergedKey(request))

(***************************************************************************)
(* C8: a channel whose write throws during a broadcast is removed from the *)
(* listeners of its key by that broadcast.                                 *)
(***************************************************************************)
C8_FailedSubscriberRemoved ==
  [][\A s \in Subs :
       (Merging /\ writes'[s] # writes[s] /\ Last(writes'[s]).thrown) =>
         s \notin Registered(listeners', conn[s].order)]_vars

(***************************************************************************)
(* C9: a channel that is registered for a key and whose writes all went    *)
(* through has received its snapshot followed by exactly the states        *)
(* committed to the key since it registered, in commit order.              *)
(***************************************************************************)
C9_UpdatesInCommitOrder ==
  \A s \in Subs :
    (conn[s].state = "open" /\ AllSent(writes, s)) =>
      LET order == conn[s].order
          log == IF order \in DOMAIN commits THEN commits[order] ELSE <<>>
      IN /\ Len(Frames(writes, s)) >= 1
         /\ Tail(Frames(writes, s)) = SubSeq(log, since[s] + 1, Len(log))

C9_Witness ==
  \E s \in Subs :
    /\ conn[s].state = "open" /\ AllSent(writes, s)
    /\ Len(Frames(writes, s)) = 3
    /\ Frames(writes, s)[2] # Frames(writes, s)[3]

(***************************************************************************)
(* C10: the timeline of an order is append-only: at every step the         *)
(* timeline before is a prefix of the timeline after, and it grows by at   *)
(* most one entry.                                                         *)
(***************************************************************************)
C10_TimelineAppendOnly ==
  [][/\ \A k \in DOMAIN store :
          /\ k \in DOMAIN store'
          /\ IsPrefix(Timeline(store[k]), Timeline(store'[k]))
          /\ Len(Timeline(store'[k])) <= Len(Timeline(store[k])) + 1
     /\ \A k \in DOMAIN store' \ DOMAIN store : Len(Timeline(store'[k])) <= 1]_vars

C10_Witness ==
  \E k \in DOMAIN store :
    /\ Len(Timeline(store[k])) = 2
    /\ Prop(Timeline(store[k])[1], "label") # Prop(Timeline(store[k])[2], "label")

(***************************************************************************)
(* C11: a webhook event applied a second time, right after itself, leaves  *)
(* status, driverName, driverPhone, lat, lng and etaMinutes of the order   *)
(* as the first application left them; the timeline grows by one entry     *)
(* when the event maps to a label and stays as it is otherwise, and        *)
(* nothing but updatedAt and the timeline differs.                         *)
(***************************************************************************)
C11_ReplayIdempotent ==
  [][(Merging /\ IsWebhookMerge(request') /\ request' = request) =>
       LET order == MergedKey(request')
           label == statusToLabel(rawStatus(request'.body))
       IN /\ \A f \in StickyFields \cup {"status"} :
               Prop(store'[order], f) = Prop(store[order], f)
          /\ DOMAIN store'[order].props = DOMAIN store[order].props
          /\ IsPrefix(Timeline(store[order]), Timeline(store'[order]))
          /\ Len(Timeline(store'[order])) =
               Len(Timeline(store[order])) + (IF Truthy(label) THEN 1 ELSE 0)
          /\ Truthy(label) => Prop(Last(Timeline(store'[order])), "label") = label]_vars

C11_Witness ==
  /\ IsWebhookMerge(request)
  /\ LET order == MergedKey(request) IN
     /\ order \in DOMAIN commits
     /\ Len(commits[order]) = 2
     /\ Prop(store[order], "driverName") = Str("Sara")
     /\ Prop(store[order], "status") = Str("accepted")
     /\ Len(Timeline(store[order])) = 2
     /\ Prop(Timeline(store[order])[1], "label") = Prop(Timeline(store[order])[2], "label")
     /\ Prop(commits[order][1], "updatedAt") # Prop(commits[order][2], "updatedAt")

(***************************************************************************)
(* C12: in every reachable state the status a tracking query answers with, *)
(* and the status of every frame written to a channel, is one of pending,  *)
(* accepted, enroute, nearby, completed.                                   *)
(***************************************************************************)
StatusValues == {Str("pending"), Str("accepted"), Str("enroute"), Str("nearby"), Str("completed")}

C12_StatusInEnumeration ==
  /\ \A q \in QueryOrders :
       QueryOrder[q] # "" =>
         Prop(trackingJson(store, Str(QueryOrder[q])), "status") \in StatusValues
  /\ \A s \in Subs : \A i \in 1..Len(writes[s]) :
       Prop(writes[s][i].data, "status") \in StatusValues

(***************************************************************************)
(* C13: reading never mutates. A tracking query, and the opening of an     *)
(* events channel, leave the store as it is; for a key without a record    *)
(* the answer is the key with status pending and an empty timeline and     *)
(* nothing else, and no record is created; for a key with a record a query *)
(* answers with the stored state.                                          *)
(***************************************************************************)
PendingView(order) ==
  Obj([order |-> order, status |-> Str("pending"), timeline |-> Arr(<<>>)])

C13_ReadsDoNotMutate ==
  [][/\ (request'.op = "tracking" /\ response'.status = 200) =>
          LET order == Str(trim(request'.order)) IN
          /\ store' = store
          /\ order \notin DOMAIN store => response'.body = PendingView(order)
          /\ order \in DOMAIN store =>
               /\ Prop(response'.body, "order") = order
               /\ \A f \in DOMAIN store[order].props :
                    Prop(response'.body, f) = store[order].props[f]
     /\ \A s \in Subs :
          (conn[s].state = "new" /\ conn'[s].state = "open") =>
            /\ store' = store
            /\ conn'[s].order \notin DOMAIN store =>
                 Last(writes'[s]).data = PendingView(conn'[s].order)]_vars

C13_Witness ==
  /\ request.op = "tracking" /\ response.status = 200
  /\ Str(trim(request.order)) \notin DOMAIN store
  /\ DOMAIN store # {}
  /\ response.body = PendingView(Str(trim(request.order)))
  /\ \E s \in Subs : conn[s].state = "open" /\ conn[s].order \notin DOMAIN store

(***************************************************************************)
(* C14: the listeners map holds exactly the channels that are open, each   *)
(* once and under the key it subscribed to, and no key is mapped to an     *)
(* empty set; a channel that has closed gets no further write.             *)
(***************************************************************************)
RegistryExact ==
  /\ \A k \in DOMAIN listeners :
       /\ Len(listeners[k]) >= 1
       /\ \A i, j \in 1..Len(listeners[k]) : listeners[k][i] = listeners[k][j] => i = j
       /\ Range(listeners[k]) = {s \in Subs : conn[s].state = "open" /\ conn[s].order = k}
  /\ \A s \in Subs : conn[s].state = "open" => conn[s].order \in DOMAIN listeners

C14_RegistryExact ==
  /\ []RegistryExact
  /\ [][\A s \in Subs : conn[s].state = "closed" => writes'[s] = writes[s]]_vars

C14_Witness ==
  \E s, r \in Subs :
    /\ conn[s].state = "closed" /\ conn[s].order # undefined
    /\ conn[s].order \notin DOMAIN listeners
    /\ conn[r].state = "open"
    /\ conn[s].order \in DOMAIN commits
    /\ Len(commits[conn[s].order]) > since[s]
    /\ Len(writes[s]) = 1

(***************************************************************************)
(* C17: a mock event for key K leaves driverName, driverPhone, lat, lng    *)
(* and etaMinutes of K as they were, sets the status to the given one, and *)
(* leaves the record of every other key unchanged.                         *)
(***************************************************************************)
C17_MockFrame ==
  [][(Merging /\ request'.op = "mock") =>
       LET order == MergedKey(request')
           before == Or(mapGet(store, order), EmptyObj)
       IN /\ \A f \in StickyFields : Prop(store'[order], f) = Prop(before, f)
          /\ Prop(store'[order], "status") = Str(request'.status)
          /\ DOMAIN store' = DOMAIN store \cup {order}
          /\ \A k \in DOMAIN store : k # order => store'[k] = store[k]]_vars

C17_Witness ==
  /\ request.op = "mock"
  /\ LET order == MergedKey(request) IN
     /\ order \in DOMAIN store
     /\ Prop(store[order], "driverName") = Str("Ahmed")
     /\ Prop(store[order], "status") = Str(request.status)
     /\ Len(Timeline(store[order])) = 1

(***************************************************************************)
(* C20: no update is lost between the snapshot and the registration: in    *)
(* every reachable state, the last frame of a registered channel whose     *)
(* writes all went through is the order key with the state now stored for  *)
(* its key (the pending view when the key has no record).                  *)
(***************************************************************************)
C20_LastFrameIsCurrent ==
  \A s \in Subs :
    (conn[s].state = "open" /\ AllSent(writes, s)) =>
      /\ Len(writes[s]) >= 1
      /\ Last(writes[s]).data =
           JSONstringify(withOrder(conn[s].order,
                                   IF conn[s].order \in DOMAIN store
                                   THEN store[conn[s].order] ELSE DefaultView))

C20_Witness ==
  \E s \in Subs :
    /\ conn[s].state = "open" /\ AllSent(writes, s)
    /\ since[s] = 1
    /\ Len(writes[s]) = 2
    /\ writes[s][1].data # writes[s][2].data
    /\ Len(commits[conn[s].order]) = 2

(***************************************************************************)
(* Vocabulary of the claims about one webhook event on an empty store.     *)
(***************************************************************************)
\* a handler has taken the payload
Handled == request.op = "webhook"
HandledByServerJs == Handled /\ "file" \in DOMAIN request
HandledByPart000 == Handled /\ "file" \notin DOMAIN request
\* the status of the one record the event stored
StoredStatus(k) == Prop(store[k], "status")
\* the rows of the classification table, in their order
TableStatus == <<"accepted", "enroute", "nearby", "completed">>
CodePatterns == <<AcceptedRe, EnrouteRe, NearbyRe, CompletedRe>>
MatchingRows(patterns, raw) == {i \in 1..4 : testI(patterns[i], raw)}
EarliestRow(patterns, raw) ==
  IF MatchingRows(patterns, raw) = {} THEN undefined
  ELSE Str(TableStatus[CHOOSE i \in MatchingRows(patterns, raw) :
                         \A j \in MatchingRows(patterns, raw) : i <= j])
FixedLabel ==
  [accepted |-> "Driver accepted your order", enroute |-> "Driver is on the way",
   nearby |-> "Driver is nearby", completed |-> "Order delivered successfully"]

(***************************************************************************)
(* C15: when the raw status text matches more than one row of the table,   *)
(* the webhook handler stores the status of the earliest matching row in   *)
(* the order accepted, enroute, nearby, completed, in part_000 and in      *)
(* server.js alike.                                                        *)
(* Does not hold: the four if statements of server.js each assign, so the  *)
(* last matching row wins there.                                           *)
(***************************************************************************)
C15_FirstMatchWins ==
  Handled =>
    \A k \in DOMAIN store :
      Cardinality(MatchingRows(CodePatterns, rawStatus(request.body))) > 1
        => StoredStatus(k) = EarliestRow(CodePatterns, rawStatus(request.body))

(***************************************************************************)
(* C16: the status the webhook handler of part_000 stores is the one the   *)
(* table of the specification gives for the raw text, without regard to    *)
(* case; "on the way" counts with a space, an underscore, a hyphen or      *)
(* nothing between its words; and the label of that status is the one      *)
(* timeline entry appended.                                                *)
(* Does not hold: the code's pattern has on_the_way and on-the-way only.   *)
(***************************************************************************)
TablePatterns ==
  <<{"accept", "assigned"},
    {"start", "enroute", "dispatched", "on the way", "on_the_way", "on-the-way", "ontheway"},
    {"nearby", "arriving"},
    {"delivered", "completed", "success"}>>
C16_ClassifiedByTable ==
  HandledByPart000 =>
    \A k \in DOMAIN store :
      LET row == EarliestRow(TablePatterns, rawStatus(request.body)) IN
      /\ StoredStatus(k) = row
      /\ row # undefined =>
           Timeline(store[k]) = <<Obj([label |-> Str(FixedLabel[row.str]),
                                       ts |-> Timeline(store[k])[1].props.ts])>>

(***************************************************************************)
(* C18: a payload whose candidate key fields are all absent or empty after *)
(* trimming has no key and creates no record; and the key a record is      *)
(* stored under is the text a later query for it looks up, that is, the    *)
(* trimmed text.                                                           *)
(* Does not hold: pickKey does not trim, in either variant.                *)
(***************************************************************************)
CandidateFields == IF HandledByServerJs THEN KeyFieldsServerJs ELSE KeyFields
BlankOrAbsent(b, fields) ==
  \A i \in 1..Len(fields) :
    \/ fields[i] \notin DOMAIN b.props
    \/ trim(toString(b.props[fields[i]])) = ""
\* the key GET /api/tracking looks up for the query text q
LookedUp(q) == Str(trim(toString(Or(Str(q), Str("")))))
C18_KeyIsTrimmedNonEmpty ==
  Handled =>
    /\ BlankOrAbsent(request.body, CandidateFields) => store = <<>>
    /\ \A k \in DOMAIN store : LookedUp(toString(k)) = k

(***************************************************************************)
(* C19: a webhook event of part_000 appends a timeline entry exactly when  *)
(* it stores one of the four classified statuses, and the entry's label is *)
(* the fixed label of the status that same event stored.                   *)
(***************************************************************************)
C19_LabelAgreesWithStatus ==
  HandledByPart000 =>
    \A k \in DOMAIN store :
      LET tl == Timeline(store[k])
          classified == StoredStatus(k) \in {Str(TableStatus[i]) : i \in 1..4}
      IN /\ Len(tl) <= 1
         /\ classified <=> Len(tl) = 1
         /\ classified <=> MatchingRows(CodePatterns, rawStatus(request.body)) # {}
         /\ Len(tl) = 1 => Prop(tl[1], "label") = Str(FixedLabel[StoredStatus(k).str])
\* a mixed-case text matching two rows has stored accepted with its label
C19_Witness ==
  /\ HandledByPart000
  /\ rawStatus(request.body) = "ASSIGNED delivered"
  /\ Str("T1") \in DOMAIN store
  /\ StoredStatus(Str("T1")) = Str("accepted")
  /\ Len(Timeline(store[Str("T1")])) = 1
  /\ Prop(Timeline(store[Str("T1")])[1], "label") = Str("Driver accepted your order")
====
